---- MODULE Spec2Model ----
(***************************************************************************)
(* Model of generate_thumbnails.py: the thumbnail generator (main,         *)
(* process_video_folder, generate_thumbnail) and the video data updater    *)
(* (VideoDataUpdater: scan_videos, estimate_duration, generate_thumbnails, *)
(* update_html, prepare_video_data_js).                                    *)
(*                                                                         *)
(* Text is modelled as a sequence of lexemes.  A file name is a sequence   *)
(* of pieces, <<"a", ".mp4">>, whose last piece is its suffix; a relative  *)
(* path is a sequence of such pieces preceded by its directory pieces; the *)
(* HTML file is a sequence of <<kind, argument>> lexemes in which the      *)
(* opening token "const videoData = {" and the closing token "};" are one  *)
(* lexeme each.                                                            *)
(***************************************************************************)
EXTENDS Integers, Sequences, FiniteSets, TLC

VARIABLES
    \* the media tree and the catalog of VideoDataUpdater
    video_dir_exists, media, video_data,
    \* update_html
    html_exists, html, html_before, ret, new_data, writes,
    \* generate_thumbnails / generate_single_thumbnail
    thumbs, fill_pc, todo, invocations, ever_thumbs, generated_count,
    clean_pass, after_clean, pass_ok, last_check,
    \* thumbnail generator: main / process_video_folder
    tree, ffmpeg_ok, video_folder_exists, gpc, checked, stack, total_videos,
    success_count, error_count, attempts, written, created,
    \* estimate_duration
    st_size, duration

dataVars == <<video_dir_exists, media, video_data>>
htmlVars == <<html_exists, html, html_before, ret, new_data, writes>>
fillVars == <<thumbs, fill_pc, todo, invocations, ever_thumbs,
              generated_count, clean_pass, after_clean, pass_ok, last_check>>
genVars == <<tree, ffmpeg_ok, video_folder_exists, gpc, checked, stack,
             total_videos, success_count, error_count, attempts, written,
             created>>
durVars == <<st_size, duration>>
vars == <<dataVars, htmlVars, fillVars, genVars, durVars>>

(***************************************************************************)
(* Bounds of the model.                                                    *)
(***************************************************************************)
\* longest HTML file, in lexemes, before the first update
MaxHtmlLen == 4
\* most files in a media tree of the catalog model
MaxScanFiles == 2
\* most files in a media tree of the thumbnail-fill model
MaxFillFiles == 2
\* most thumbnails present before the first pass of generate_thumbnails
MaxSeeded == 1
\* most files in a media tree of the thumbnail generator
MaxTreeFiles == 3
\* largest file size, in quarters of a megabyte
MaxQuarterMB == 2500

(***************************************************************************)
(* File names, suffixes and paths.                                         *)
(***************************************************************************)
\* self.video_extensions / video_extensions
video_extensions == {".mp4", ".mov", ".avi", ".mkv", ".m4v"}

\* str.lower() on the suffixes that occur
Lower(s) ==
    CASE s = ".MP4" -> ".mp4"
      [] s = ".MOV" -> ".mov"
      [] OTHER -> s

\* Path.suffix: the last piece when it starts a suffix, else empty
Suffix(name) == IF Len(name) > 1 THEN name[Len(name)] ELSE ""

\* Path.stem: the name without its suffix
Stem(name) == IF Len(name) > 1 THEN SubSeq(name, 1, Len(name) - 1) ELSE name

\* f.suffix.lower() in video_extensions
IsVideo(name) == Lower(Suffix(name)) \in video_extensions

\* str.replace(old, new): every occurrence, case-sensitive
Replace(s, old, new) ==
    [i \in DOMAIN s |-> IF s[i] = old THEN new ELSE s[i]]

\* str.replace(old, ''): every occurrence removed
RECURSIVE Remove(_, _)
Remove(s, old) ==
    IF s = <<>> THEN <<>>
    ELSE IF Head(s) = old THEN Remove(Tail(s), old)
    ELSE <<Head(s)>> \o Remove(Tail(s), old)

\* the file names of the model, in ascending order of name
NameOrder ==
    << <<"a", ".MP4">>, <<"a", ".jpg", ".mp4">>, <<"a", ".mov">>,
       <<"a", ".mp4">>, <<"a", ".mp4", ".mp4">>, <<"a", ".txt">> >>

FileNames == {NameOrder[i] : i \in DOMAIN NameOrder}

\* sorted(videos, key=lambda x: x['name']) of the files of a set
RECURSIVE SortedFrom(_, _)
SortedFrom(names, i) ==
    IF i > Len(NameOrder) THEN <<>>
    ELSE (IF NameOrder[i] \in names THEN <<NameOrder[i]>> ELSE <<>>)
         \o SortedFrom(names, i + 1)

(***************************************************************************)
(* The catalog: scan_videos and scan_folder.                               *)
(***************************************************************************)
\* the keys of self.video_data, in the order of the dictionary
KeyOrder == <<"neutral", "realistic", "sky", "mountain", "forest", "ocean",
              "funny">>

Keys == {KeyOrder[i] : i \in DOMAIN KeyOrder}

\* the sub-categories of the nature folder
NatureOrder == <<"sky", "mountain", "forest", "ocean">>

NatureKeys == {NatureOrder[i] : i \in DOMAIN NatureOrder}

\* self.video_data after __init__
EmptyCatalog == [k \in Keys |-> <<>>]

\* relative_path of scan_folder
RelativePath(key, name) ==
    IF key \in NatureKeys
    THEN <<"videos/", "nature/", key, "/">> \o name
    ELSE <<"videos/", key, "/">> \o name

\* scan_folder: the records of a folder's video files, sorted by name
scan_folder(files, key) ==
    LET names == SortedFrom({n \in files : IsVideo(n)}, 1)
    IN  [i \in DOMAIN names |->
            [name |-> names[i], path |-> RelativePath(key, names[i])]]

\* scan_videos: False without the video folder, else every category scanned
ScanVideos ==
    /\ fill_pc = "idle"
    /\ video_dir_exists
    /\ video_data' = [k \in Keys |-> scan_folder(media[k], k)]
    /\ clean_pass' = (clean_pass /\ video_data' = video_data)
    /\ UNCHANGED <<video_dir_exists, media>>
    /\ UNCHANGED <<htmlVars, genVars, durVars>>
    /\ UNCHANGED <<thumbs, fill_pc, todo, invocations, ever_thumbs,
                   generated_count, after_clean, pass_ok, last_check>>

(***************************************************************************)
(* prepare_video_data_js and update_html.                                  *)
(***************************************************************************)
OpenTok == <<"open", <<>>>>
CloseTok == <<"close", <<>>>>
TextTok == <<"text", <<>>>>

RECURSIVE Concat(_)
Concat(ss) == IF ss = <<>> THEN <<>> ELSE Head(ss) \o Concat(Tail(ss))

\* the lines format_video_data appends for one key: nothing for an empty list
BlockOf(data, key) ==
    IF data[key] # <<>>
    THEN <<<<"block", <<key>>>>>>
         \o [i \in DOMAIN data[key] |-> <<"rec", data[key][i].name>>]
         \o <<<<"endblock", <<key>>>>>>
    ELSE <<>>

\* format_video_data
format_video_data(data) ==
    <<<<"all", <<>>>>>>
    \o Concat([i \in DOMAIN KeyOrder |-> BlockOf(data, KeyOrder[i])])

\* the statements appended to the serialization
MergeStatements ==
    [i \in DOMAIN KeyOrder |-> <<"spread_all", <<KeyOrder[i]>>>>]
    \o [i \in DOMAIN NatureOrder |-> <<"spread_nature", <<NatureOrder[i]>>>>]

prepare_video_data_js(data) == format_video_data(data) \o MergeStatements

\* the first index from `from` on at which lex stands, 0 when there is none
FirstIndex(text, lex, from) ==
    IF \E i \in from..Len(text) : text[i] = lex
    THEN CHOOSE i \in from..Len(text) :
            /\ text[i] = lex
            /\ \A j \in from..(i - 1) : text[j] # lex
    ELSE 0

\* re.sub(pattern, replace_video_data, html_content, flags=re.DOTALL) from
\* position pos on: every non-overlapping match is replaced
RECURSIVE ReSubFrom(_, _, _)
ReSubFrom(text, data, pos) ==
    LET i == FirstIndex(text, OpenTok, pos)
        j == IF i = 0 THEN 0 ELSE FirstIndex(text, CloseTok, i + 1)
    IN  IF j = 0 THEN SubSeq(text, pos, Len(text))
        ELSE SubSeq(text, pos, i - 1) \o <<OpenTok>> \o data \o <<CloseTok>>
             \o ReSubFrom(text, data, j + 1)

ReSub(text, data) == ReSubFrom(text, data, 1)

\* the test "new_html_content == html_content" inverted: a replacement is seen
ChangedAlways(old, new) == TRUE

Replaced(old, new) == new # old

\* update_html
UpdateHtml ==
    /\ html_before' = html
    /\ IF ~html_exists
       THEN /\ ret' = "False"
            /\ new_data' = <<>>
            /\ writes' = 0
            /\ html' = html
       ELSE LET data == prepare_video_data_js(video_data)
                new_html_content == ReSub(html, data)
            IN  /\ new_data' = data
                /\ IF Replaced(html, new_html_content)
                   THEN /\ html' = new_html_content
                        /\ writes' = 1
                        /\ ret' = "True"
                   ELSE /\ html' = html
                        /\ writes' = 0
                        /\ ret' = "False"
    /\ UNCHANGED html_exists
    /\ UNCHANGED <<dataVars, fillVars, genVars, durVars>>

(***************************************************************************)
(* Initial values of the parts a specification leaves alone.               *)
(***************************************************************************)
NoCheck == [name |-> <<>>, path |-> <<>>, thumbnail_path |-> <<>>]

FillIdle ==
    /\ thumbs = {}
    /\ fill_pc = "idle"
    /\ todo = <<>>
    /\ invocations = <<>>
    /\ ever_thumbs = {}
    /\ generated_count = 0
    /\ clean_pass = FALSE
    /\ after_clean = FALSE
    /\ pass_ok = FALSE
    /\ last_check = NoCheck

HtmlIdle ==
    /\ html_exists = FALSE
    /\ html = <<>>
    /\ html_before = <<>>
    /\ ret = "none"
    /\ new_data = <<>>
    /\ writes = 0

GenIdle ==
    /\ tree = <<>>
    /\ ffmpeg_ok = FALSE
    /\ video_folder_exists = FALSE
    /\ gpc = "off"
    /\ checked = FALSE
    /\ stack = <<>>
    /\ total_videos = 0
    /\ success_count = 0
    /\ error_count = 0
    /\ attempts = <<>>
    /\ written = {}
    /\ created = {}

DurIdle ==
    /\ st_size = 0
    /\ duration = <<>>

(***************************************************************************)
(* The catalog and the HTML file: scan_videos and update_html.             *)
(***************************************************************************)
\* the media trees with files named from names in the folders of keys, at
\* most n files in all
Trees(keys, names, n) ==
    {[k \in Keys |-> {s[2] : s \in {t \in S : t[1] = k}}] :
        S \in {T \in SUBSET (keys \X names) : Cardinality(T) <= n}}

RECURSIVE SeqsUpTo(_, _)
SeqsUpTo(S, n) ==
    IF n = 0 THEN {<<>>}
    ELSE LET shorter == SeqsUpTo(S, n - 1)
         IN  shorter \cup {Append(s, x) : s \in shorter, x \in S}

HtmlNames == {<<"a", ".mp4">>}

InitHtml ==
    /\ video_dir_exists \in BOOLEAN
    /\ media \in Trees(Keys, HtmlNames, MaxScanFiles)
    /\ video_dir_exists \/ media = [k \in Keys |-> {}]
    /\ video_data = EmptyCatalog
    /\ html_exists \in BOOLEAN
    /\ html \in SeqsUpTo({OpenTok, CloseTok, TextTok}, MaxHtmlLen)
    /\ html_exists \/ html = <<>>
    /\ html_before = <<>>
    /\ ret = "none"
    /\ new_data = <<>>
    /\ writes = 0
    /\ FillIdle
    /\ GenIdle
    /\ DurIdle

NextHtml == ScanVideos \/ UpdateHtml

SpecHtml == InitHtml /\ [][NextHtml]_vars

\* the text holds an opening token followed, somewhere later, by a closing one
HasRegion(text) ==
    \E i, j \in DOMAIN text :
        i < j /\ text[i] = OpenTok /\ text[j] = CloseTok

\* C1: when the file holds no delimited region (or does not exist),
\* update_html returns False, writes nothing, and the file is as it was.
C1_NoRegionFailsUntouched ==
    (ret # "none" /\ ~HasRegion(html_before)) =>
        (ret = "False" /\ writes = 0 /\ html = html_before)

\* C1's case: a call on an existing file with an opening token and no
\* closing token after it
C1_Witness ==
    /\ ret = "False"
    /\ html_exists
    /\ FirstIndex(html_before, OpenTok, 1) # 0
    /\ ~HasRegion(html_before)

\* the old text with the interior of its first region replaced, and nothing else
ReplaceFirstRegion(text, data) ==
    LET i == FirstIndex(text, OpenTok, 1)
        j == FirstIndex(text, CloseTok, i + 1)
    IN  SubSeq(text, 1, i) \o data \o SubSeq(text, j, Len(text))

\* C2: after a successful update_html the file is the old text with only
\* the interior of the first region replaced by the new serialization; all
\* text outside it, later tokens included, is preserved.
C2_OnlyFirstRegionReplaced ==
    ret = "True" => html = ReplaceFirstRegion(html_before, new_data)

\* C3: update_html succeeds on every file that holds the delimited region,
\* a second run over an unchanged media tree included.
C3_RegionPresentSucceeds ==
    (ret # "none" /\ HasRegion(html_before)) => ret = "True"

\* the keys of the blocks of a serialization, in order
RECURSIVE BlockKeys(_)
BlockKeys(text) ==
    IF text = <<>> THEN <<>>
    ELSE (IF Head(text)[1] = "block" THEN Head(text)[2] ELSE <<>>)
         \o BlockKeys(Tail(text))

\* the keys the appended merge statements refer to
RECURSIVE SpreadKeys(_)
SpreadKeys(text) ==
    IF text = <<>> THEN {}
    ELSE (IF Head(text)[1] \in {"spread_all", "spread_nature"}
          THEN {Head(text)[2][1]} ELSE {})
         \cup SpreadKeys(Tail(text))

\* C9: the serialization holds exactly one block for each of the seven
\* primary categories, in the fixed order, so every category the appended
\* merge statements refer to has a block.
C9_OneBlockPerCategory ==
    (ret # "none" /\ html_exists) =>
        /\ BlockKeys(new_data) = KeyOrder
        /\ \A k \in SpreadKeys(new_data) :
              \E i \in DOMAIN BlockKeys(new_data) : BlockKeys(new_data)[i] = k

(***************************************************************************)
(* generate_thumbnails and generate_single_thumbnail.                      *)
(***************************************************************************)
\* thumbnail_name of process_directory: video_file.stem + '.jpg'
thumbnail_name(name) == Stem(name) \o <<".jpg">>

\* thumbnail_path of process_directory, under the output folder: the
\* mirrored directory and the thumbnail name
GeneratorThumbnailPath(dir, name) == dir \o thumbnail_name(name)

\* thumbnail_path of generate_single_thumbnail, under self.thumbnail_dir
ThumbnailPath(path) == Replace(Remove(path, "videos/"), ".mp4", ".jpg")

\* a check that never sees the thumbnail
ThumbnailExistsNever(path, files) == FALSE

\* thumbnail_path.exists()
ThumbnailExists(path, files) == path \in files

\* for category_videos in self.video_data.values(): for video in ...
AllVideos(data) == Concat([i \in DOMAIN KeyOrder |-> data[KeyOrder[i]]])

\* generate_thumbnails up to its loop: the ffmpeg check
GenerateThumbnails ==
    /\ fill_pc = "idle"
    /\ \E available \in BOOLEAN :
          /\ invocations' = <<>>
          /\ after_clean' = clean_pass
          /\ IF available
             THEN /\ fill_pc' = "filling"
                  /\ todo' = AllVideos(video_data)
                  /\ generated_count' = 0
                  /\ pass_ok' = TRUE
                  /\ UNCHANGED clean_pass
             ELSE /\ clean_pass' = FALSE
                  /\ UNCHANGED <<fill_pc, todo, generated_count, pass_ok>>
    /\ UNCHANGED <<thumbs, ever_thumbs, last_check>>
    /\ UNCHANGED <<dataVars, htmlVars, genVars, durVars>>

\* one turn of the loop: generate_single_thumbnail(video).  The tool ends
\* with the file written, or fails and leaves nothing or a partial file.
GenerateSingleThumbnail ==
    /\ fill_pc = "filling"
    /\ todo # <<>>
    /\ LET video_info == Head(todo)
           thumbnail_path == ThumbnailPath(video_info.path)
       IN  /\ todo' = Tail(todo)
           /\ last_check' = [name |-> video_info.name,
                             path |-> video_info.path,
                             thumbnail_path |-> thumbnail_path]
           /\ IF ThumbnailExists(thumbnail_path, thumbs)
              THEN UNCHANGED <<thumbs, invocations, generated_count, pass_ok>>
              ELSE \E outcome \in {"ok", "failed", "failed_partial"} :
                      /\ invocations' =
                            Append(invocations,
                                   [output |-> thumbnail_path,
                                    existed |-> thumbnail_path \in thumbs])
                      /\ thumbs' = IF outcome = "failed" THEN thumbs
                                   ELSE thumbs \cup {thumbnail_path}
                      /\ generated_count' = IF outcome = "ok"
                                            THEN generated_count + 1
                                            ELSE generated_count
                      /\ pass_ok' = (pass_ok /\ outcome = "ok")
    /\ ever_thumbs' = ever_thumbs \cup thumbs'
    /\ UNCHANGED <<fill_pc, clean_pass, after_clean>>
    /\ UNCHANGED <<dataVars, htmlVars, genVars, durVars>>

\* the end of generate_thumbnails
FinishGenerateThumbnails ==
    /\ fill_pc = "filling"
    /\ todo = <<>>
    /\ fill_pc' = "idle"
    /\ clean_pass' = pass_ok
    /\ UNCHANGED <<thumbs, todo, invocations, ever_thumbs, generated_count,
                   after_clean, pass_ok, last_check>>
    /\ UNCHANGED <<dataVars, htmlVars, genVars, durVars>>

FillKeys == {"neutral", "sky"}

FillNames == {<<"a", ".mp4">>, <<"a", ".mov">>, <<"a", ".jpg", ".mp4">>,
              <<"a", ".mp4", ".mp4">>}

\* the thumbnail paths either script may write for the files of a tree
Candidates(t) ==
    UNION {{ThumbnailPath(RelativePath(p[1], p[2])),
            GeneratorThumbnailPath(
                SubSeq(RelativePath(p[1], p[2]), 2,
                       Len(RelativePath(p[1], p[2])) - Len(p[2])),
                p[2])} : p \in {q \in Keys \X FillNames : q[2] \in t[q[1]]}}

InitFill ==
    /\ video_dir_exists = TRUE
    /\ media \in Trees(FillKeys, FillNames, MaxFillFiles)
    /\ video_data = EmptyCatalog
    /\ thumbs \in {T \in SUBSET Candidates(media) : Cardinality(T) <= MaxSeeded}
    /\ ever_thumbs = thumbs
    /\ fill_pc = "idle"
    /\ todo = <<>>
    /\ invocations = <<>>
    /\ generated_count = 0
    /\ clean_pass = FALSE
    /\ after_clean = FALSE
    /\ pass_ok = FALSE
    /\ last_check = NoCheck
    /\ HtmlIdle
    /\ GenIdle
    /\ DurIdle

NextFill ==
    \/ ScanVideos
    \/ GenerateThumbnails
    \/ GenerateSingleThumbnail
    \/ FinishGenerateThumbnails

SpecFill == InitFill /\ [][NextFill]_vars

\* C6: the path generate_single_thumbnail checks and creates for a record
\* is the path the thumbnail generator writes for that file: the mirrored
\* directory and the file's stem with the suffix .jpg.
C6_FillPathIsMirrorPath ==
    last_check # NoCheck =>
        last_check.thumbnail_path =
            GeneratorThumbnailPath(
                SubSeq(last_check.path, 2,
                       Len(last_check.path) - Len(last_check.name)),
                last_check.name)

\* C7: the tool is never invoked with an output path at which a thumbnail
\* exists, no thumbnail that existed is gone, and a pass that follows a
\* fully successful pass over an unchanged catalog invokes the tool not once.
C7_FillIsAdditive ==
    /\ \A i \in DOMAIN invocations : ~invocations[i].existed
    /\ ever_thumbs \subseteq thumbs
    /\ after_clean => invocations = <<>>

\* C7's case: a pass that skipped an existing thumbnail and created another,
\* and a pass that followed a fully successful one over a catalog with videos
C7_Witness ==
    /\ fill_pc = "idle"
    /\ after_clean
    /\ clean_pass
    /\ AllVideos(video_data) # <<>>
    /\ thumbs # {}

(***************************************************************************)
(* The thumbnail generator: main, process_video_folder, process_directory. *)
(***************************************************************************)
\* the video folder, its category folders and one nested folder
Root == <<>>
GenDirs == {<<"neutral", "/">>, <<"nature/">>, <<"nature/", "sky", "/">>}

\* [d for d in current_dir.iterdir() if d.is_dir()]
Children(dir) ==
    IF dir = Root THEN {<<"neutral", "/">>, <<"nature/">>}
    ELSE IF dir = <<"nature/">> THEN {<<"nature/", "sky", "/">>}
    ELSE {}

GenNames == {<<"a", ".mp4">>, <<"a", ".mov">>, <<"a", ".txt">>}

\* the trees with at most n files in all, in the video folder and below
GenTrees(n) ==
    {[d \in GenDirs \cup {Root} |-> {s[2] : s \in {t \in S : t[1] = d}}] :
        S \in {T \in SUBSET ((GenDirs \cup {Root}) \X GenNames) :
                  Cardinality(T) <= n}}

\* video_files of process_directory
video_files(t, dir) == {n \in t[dir] : IsVideo(n)}

\* the frame of one call of process_directory
Frame(t, dir) ==
    [dir |-> dir, files |-> video_files(t, dir), subs |-> Children(dir)]

Top == stack[Len(stack)]

\* main up to its first return: check_ffmpeg, ignored
CheckFfmpegIgnored ==
    /\ gpc = "start"
    /\ checked' = TRUE
    /\ gpc' = "checked"
    /\ UNCHANGED <<tree, ffmpeg_ok, video_folder_exists, stack, total_videos,
                   success_count, error_count, attempts, written, created>>
    /\ UNCHANGED <<dataVars, htmlVars, fillVars, durVars>>

\* main up to its first return: check_ffmpeg
CheckFfmpeg ==
    /\ gpc = "start"
    /\ checked' = TRUE
    /\ gpc' = IF ffmpeg_ok THEN "checked" ELSE "done"
    /\ UNCHANGED <<tree, ffmpeg_ok, video_folder_exists, stack, total_videos,
                   success_count, error_count, attempts, written, created>>
    /\ UNCHANGED <<dataVars, htmlVars, fillVars, durVars>>

\* main from the check of the video folder to the start of the loop of
\* process_video_folder: the output folder is made, the counters are zero
StartProcessing ==
    /\ gpc = "checked"
    /\ IF video_folder_exists
       THEN /\ gpc' = "walking"
            /\ created' = {Root}
            /\ stack' = <<[dir |-> Root, files |-> {}, subs |-> Children(Root)]>>
            /\ total_videos' = 0
            /\ success_count' = 0
            /\ error_count' = 0
       ELSE /\ gpc' = "done"
            /\ UNCHANGED <<created, stack, total_videos, success_count,
                           error_count>>
    /\ UNCHANGED <<tree, ffmpeg_ok, video_folder_exists, checked, attempts,
                   written>>
    /\ UNCHANGED <<dataVars, htmlVars, fillVars, durVars>>

\* a call of process_directory on a sub-directory, after the files of the
\* current directory: the mirrored output directory is made
EnterDirectory ==
    /\ gpc = "walking"
    /\ Top.files = {}
    /\ \E sub \in Top.subs :
          /\ stack' = Append([stack EXCEPT ![Len(stack)].subs = @ \ {sub}],
                             Frame(tree, sub))
          /\ created' = created \cup {sub}
    /\ UNCHANGED <<tree, ffmpeg_ok, video_folder_exists, gpc, checked,
                   total_videos, success_count, error_count, attempts,
                   written>>
    /\ UNCHANGED <<dataVars, htmlVars, fillVars, durVars>>

\* one turn of the loop over video_files in which a failed extraction ends
\* the run
ProcessFileAbort ==
    /\ gpc = "walking"
    /\ \E name \in Top.files, success \in BOOLEAN :
          /\ total_videos' = total_videos + 1
          /\ attempts' = Append(attempts,
                                [dir |-> Top.dir, name |-> name, ok |-> success])
          /\ IF success
             THEN /\ success_count' = success_count + 1
                  /\ written' = written \cup
                                   {GeneratorThumbnailPath(Top.dir, name)}
                  /\ stack' = [stack EXCEPT ![Len(stack)].files = @ \ {name}]
                  /\ UNCHANGED <<error_count, gpc>>
             ELSE /\ error_count' = error_count + 1
                  /\ stack' = <<>>
                  /\ gpc' = "done"
                  /\ UNCHANGED <<success_count, written>>
    /\ UNCHANGED <<tree, ffmpeg_ok, video_folder_exists, checked, created>>
    /\ UNCHANGED <<dataVars, htmlVars, fillVars, durVars>>

\* one turn of the loop over video_files: generate_thumbnail succeeds and
\* writes the thumbnail, or fails (non-zero exit or exception) and is counted
ProcessFile ==
    /\ gpc = "walking"
    /\ \E name \in Top.files, success \in BOOLEAN :
          /\ total_videos' = total_videos + 1
          /\ attempts' = Append(attempts,
                                [dir |-> Top.dir, name |-> name, ok |-> success])
          /\ stack' = [stack EXCEPT ![Len(stack)].files = @ \ {name}]
          /\ IF success
             THEN /\ success_count' = success_count + 1
                  /\ written' = written \cup
                                   {GeneratorThumbnailPath(Top.dir, name)}
                  /\ UNCHANGED error_count
             ELSE /\ error_count' = error_count + 1
                  /\ UNCHANGED <<success_count, written>>
    /\ UNCHANGED <<tree, ffmpeg_ok, video_folder_exists, gpc, checked, created>>
    /\ UNCHANGED <<dataVars, htmlVars, fillVars, durVars>>

\* the return of a call of process_directory
ReturnDirectory ==
    /\ gpc = "walking"
    /\ Len(stack) > 1
    /\ Top.files = {}
    /\ Top.subs = {}
    /\ stack' = SubSeq(stack, 1, Len(stack) - 1)
    /\ UNCHANGED <<tree, ffmpeg_ok, video_folder_exists, gpc, checked,
                   total_videos, success_count, error_count, attempts,
                   written, created>>
    /\ UNCHANGED <<dataVars, htmlVars, fillVars, durVars>>

\* the end of the loop of process_video_folder: the counts are reported
FinishProcessing ==
    /\ gpc = "walking"
    /\ Len(stack) = 1
    /\ Top.subs = {}
    /\ stack' = <<>>
    /\ gpc' = "done"
    /\ UNCHANGED <<tree, ffmpeg_ok, video_folder_exists, checked,
                   total_videos, success_count, error_count, attempts,
                   written, created>>
    /\ UNCHANGED <<dataVars, htmlVars, fillVars, durVars>>

InitGen ==
    /\ tree \in GenTrees(MaxTreeFiles)
    /\ ffmpeg_ok \in BOOLEAN
    /\ video_folder_exists \in BOOLEAN
    /\ video_folder_exists \/ tree = [d \in GenDirs \cup {Root} |-> {}]
    /\ gpc = "start"
    /\ checked = FALSE
    /\ stack = <<>>
    /\ total_videos = 0
    /\ success_count = 0
    /\ error_count = 0
    /\ attempts = <<>>
    /\ written = {}
    /\ created = {}
    /\ video_dir_exists = FALSE
    /\ media = [k \in Keys |-> {}]
    /\ video_data = EmptyCatalog
    /\ HtmlIdle
    /\ FillIdle
    /\ DurIdle

NextGen ==
    \/ CheckFfmpeg
    \/ StartProcessing
    \/ EnterDirectory
    \/ ProcessFile
    \/ ReturnDirectory
    \/ FinishProcessing

SpecGen == InitGen /\ [][NextGen]_vars

\* the media files the traversal finds: those of the category folders and
\* of the folders below them
Discovered(t) == {p \in GenDirs \X GenNames : IsVideo(p[2]) /\ p[2] \in t[p[1]]}

\* C4: a failed extraction never stops the batch: between files and at the
\* end total_videos = success_count + error_count, error_count is the
\* number of failed extractions, no file is attempted twice, and at the
\* end every media file of the traversal has been attempted.
C4_BatchSurvivesFailures ==
    /\ total_videos = success_count + error_count
    /\ total_videos = Len(attempts)
    /\ error_count = Cardinality({i \in DOMAIN attempts : ~attempts[i].ok})
    /\ \A i, j \in DOMAIN attempts :
          (attempts[i].dir = attempts[j].dir
           /\ attempts[i].name = attempts[j].name) => i = j
    /\ (gpc = "done" /\ ffmpeg_ok /\ video_folder_exists) =>
          {<<attempts[i].dir, attempts[i].name>> : i \in DOMAIN attempts}
              = Discovered(tree)

\* C4's case: a finished run in which an extraction succeeded after one failed
C4_Witness ==
    /\ gpc = "done"
    /\ \E i, j \in DOMAIN attempts :
          i < j /\ ~attempts[i].ok /\ attempts[j].ok

\* C5: after a run in which every extraction succeeded, the number of
\* distinct image paths written is the number of media files discovered.
C5_OneImagePerMediaFile ==
    (gpc = "done" /\ error_count = 0) => Cardinality(written) = total_videos

\* C8: without the tool nothing is traversed, created or extracted, and
\* nothing is traversed, created or extracted before the tool is checked.
C8_NoToolNoWrites ==
    /\ ~ffmpeg_ok =>
          (created = {} /\ written = {} /\ attempts = <<>> /\ stack = <<>>)
    /\ (created # {} \/ written # {} \/ attempts # <<>> \/ stack # <<>>) =>
          checked

\* C8's case: the run has ended at the tool check, over a tree with videos
C8_Witness ==
    /\ gpc = "done"
    /\ checked
    /\ ~ffmpeg_ok
    /\ video_folder_exists
    /\ Discovered(tree) # {}

(***************************************************************************)
(* estimate_duration.                                                      *)
(***************************************************************************)
\* 1024 * 1024
MB == 1048576

QuarterMB == MB \div 4

\* int(size_mb * k) for size_mb = size / (1024 * 1024)
IntTimes(size, k) == (size \div MB) * k + ((size % MB) * k) \div MB

Digit(d) == CASE d = 0 -> "0" [] d = 1 -> "1" [] d = 2 -> "2" [] d = 3 -> "3"
              [] d = 4 -> "4" [] d = 5 -> "5" [] d = 6 -> "6" [] d = 7 -> "7"
              [] d = 8 -> "8" [] d = 9 -> "9"

\* str(n) for n >= 0
RECURSIVE Decimal(_)
Decimal(n) ==
    IF n < 10 THEN <<Digit(n)>> ELSE Append(Decimal(n \div 10), Digit(n % 10))

\* the format :02d: at least two digits, more when the number needs them
Format02d(n) == IF n < 10 THEN <<"0", Digit(n)>> ELSE Decimal(n)

\* estimate_duration on a file of size bytes
estimate_duration(size) ==
    IF size < 3 * MB
    THEN <<"0", ":">> \o Format02d(20 + IntTimes(size, 10))
    ELSE IF size < 10 * MB
    THEN <<"0", ":">> \o Format02d(40 + IntTimes(size, 5))
    ELSE IF size < 30 * MB
    THEN <<"1", ":">> \o Format02d(IntTimes(size, 2))
    ELSE <<"2", ":">> \o Format02d((size \div MB) \div 10)

\* estimate_duration(video_path): "1:30" when stat() raises
EstimateDuration ==
    /\ duration = <<>>
    /\ \E stat_ok \in BOOLEAN :
          duration' = IF stat_ok THEN estimate_duration(st_size)
                      ELSE <<"1", ":", "3", "0">>
    /\ UNCHANGED st_size
    /\ UNCHANGED <<dataVars, htmlVars, fillVars, genVars>>

InitDur ==
    /\ st_size \in {q * QuarterMB + d : q \in 0..MaxQuarterMB,
                                       d \in {0, QuarterMB - 1}}
    /\ duration = <<>>
    /\ video_dir_exists = FALSE
    /\ media = [k \in Keys |-> {}]
    /\ video_data = EmptyCatalog
    /\ HtmlIdle
    /\ FillIdle
    /\ GenIdle

NextDur == EstimateDuration

SpecDur == InitDur /\ [][NextDur]_vars

DigitChars == {"0", "1", "2", "3", "4", "5", "6", "7", "8", "9"}

\* C10: the string estimate_duration returns is "M:SS": one digit of
\* minutes, a colon, and two digits of seconds between 00 and 59.
C10_DurationWellFormed ==
    duration # <<>> =>
        /\ Len(duration) = 4
        /\ duration[1] \in DigitChars
        /\ duration[2] = ":"
        /\ duration[3] \in {"0", "1", "2", "3", "4", "5"}
        /\ duration[4] \in DigitChars

====
